---- MODULE Spec2Model ----
(***************************************************************************)
(* Model of the in-memory to-do list service of src/main.py: the module    *)
(* globals tasks_storage and next_task_id, the request validation of       *)
(* TaskCreate, the helpers find_task_by_id and create_task_object, and the *)
(* five route handlers.  A text is the sequence of its Unicode code points.  *)
(* Spec is the service with every request handled to completion before the *)
(* next one starts; SpecConc runs two create requests step by step with no *)
(* mutual exclusion.                                                       *)
(***************************************************************************)
EXTENDS Integers, Sequences, FiniteSets, TLC

VARIABLES tasks_storage, next_task_id, request, response,
          issued, deleted, n_deleted,
          pc, new_task, reg, overlapped

vars == <<tasks_storage, next_task_id, request, response,
          issued, deleted, n_deleted, pc, new_task, reg, overlapped>>

store == <<tasks_storage, next_task_id>>
history == <<issued, deleted, n_deleted>>
workers == <<pc, new_task, reg, overlapped>>

\* ---------------------------------------------------------------- bounds
\* successful creates in one run (cap on next_task_id)
MaxIssue == 3
\* whitespace characters put before and after a request text
MaxPad == 1
\* successful creates in one run of the interleaved specification
MaxConcIssue == 3

\* ------------------------------------------------------ program constants
\* TaskCreate.text: Field(min_length=1, max_length=200)
MinLength == 1
MaxLength == 200

HTTP_200_OK == 200
HTTP_201_CREATED == 201
HTTP_404_NOT_FOUND == 404
HTTP_422_UNPROCESSABLE == 422
\* the framework's answer to an exception a handler does not catch
HTTP_500_INTERNAL_SERVER_ERROR == 500

\* ------------------------------------------------------------------ texts
\* the code points str.strip() with no argument removes (str.isspace):
\* U+0009..U+000D, U+001C..U+001F, U+0020, U+0085, U+00A0, U+1680,
\* U+2000..U+200A, U+2028, U+2029, U+202F, U+205F, U+3000
Whitespace == (9..13) \cup (28..32) \cup {133, 160, 5760} \cup (8192..8202)
              \cup {8232, 8233, 8239, 8287, 12288}

\* code points used in the request texts: space, form feed, ideographic
\* space, the letters a and b
SPACE == 32
FF == 12
IDEOGRAPHIC_SPACE == 12288
LETTER_A == 97
LETTER_B == 98

\* the surrogate code points U+D800..U+DFFF: a str holding one is not
\* well-formed Unicode
HIGH_SURROGATE == 55296
LOW_SURROGATE == 57343
Surrogates == HIGH_SURROGATE..LOW_SURROGATE

Rep(c, n) == [i \in 1..n |-> c]

\* up to MaxPad form feeds before a body, ideographic spaces after it
LeftPads == { Rep(FF, i) : i \in 0..MaxPad }

RightPads == { Rep(IDEOGRAPHIC_SPACE, i) : i \in 0..MaxPad }

\* request texts: a body with a pad on each side
Bodies == { <<>>, <<LETTER_A>>, <<LETTER_A, SPACE, LETTER_B>>,
            <<SPACE, LETTER_A, SPACE>>,
            Rep(LETTER_A, MaxLength), Rep(LETTER_A, MaxLength + 1) }

\* texts that hold a lone surrogate
SurrogateTexts == { <<HIGH_SURROGATE>>, <<LETTER_A, LOW_SURROGATE>> }

Texts == { l \o b \o r : l \in LeftPads, r \in RightPads, b \in Bodies }
         \cup SurrogateTexts

ConcTexts == { <<LETTER_A>>, <<FF>>, <<LETTER_B, IDEOGRAPHIC_SPACE>>,
               <<HIGH_SURROGATE>> }

TaskIds == (0 - 1)..(MaxIssue + 1)

Workers == {1, 2}

\* ------------------------------------------------------------ pure helpers
RECURSIVE lstrip(_)
lstrip(s) == IF s # <<>> /\ Head(s) \in Whitespace THEN lstrip(Tail(s)) ELSE s

RECURSIVE rstrip(_)
rstrip(s) == IF s # <<>> /\ s[Len(s)] \in Whitespace
             THEN rstrip(SubSeq(s, 1, Len(s) - 1)) ELSE s

strip_left_only(s) == lstrip(s)

\* str.strip()
strip(s) == rstrip(lstrip(s))

\* the str type check of the text field: no surrogate code point
string_unicode(text) == \A i \in 1..Len(text) : text[i] \notin Surrogates

\* TaskCreate: a well-formed string whose length, as sent, is within the
\* constraints of the field
TaskCreate(text) ==
    /\ string_unicode(text)
    /\ MinLength <= Len(text) /\ Len(text) <= MaxLength

next_id_same(n) == n

next_id_plus2(n) == n + 2

\* next_task_id += 1
next_id_after(n) == n + 1

create_task_object_count(task_text, nid, storage) ==
    [task |-> [id |-> Len(storage) + 1, text |-> strip(task_text)],
     next |-> next_id_after(nid)]

\* create_task_object: the new dict and the new value of the global counter;
\* nid and storage are the module globals as the function sees them
create_task_object(task_text, nid, storage) ==
    [task |-> [id |-> nid, text |-> strip(task_text)],
     next |-> next_id_after(nid)]

RECURSIVE find_task_leaky(_, _)
find_task_leaky(storage, task_id) ==
    IF storage = <<>> THEN <<>>
    ELSE IF Head(storage).id = task_id \/ Len(storage) = 1 THEN <<Head(storage)>>
    ELSE find_task_leaky(Tail(storage), task_id)

\* find_task_by_id: <<task>> for the first task with that id, <<>> for None
RECURSIVE find_task_by_id(_, _)
find_task_by_id(storage, task_id) ==
    IF storage = <<>> THEN <<>>
    ELSE IF Head(storage).id = task_id THEN <<Head(storage)>>
    ELSE find_task_by_id(Tail(storage), task_id)

list_remove_pop(storage, x) ==
    [raised |-> storage = <<>>, list |-> SubSeq(storage, 1, Len(storage) - 1)]

\* list.remove(x): drops the first element equal to x; when no element
\* equals x it raises ValueError and the list stays as it was
RECURSIVE list_remove(_, _)
list_remove(storage, x) ==
    IF storage = <<>> THEN [raised |-> TRUE, list |-> storage]
    ELSE IF Head(storage) = x THEN [raised |-> FALSE, list |-> Tail(storage)]
    ELSE LET r == list_remove(Tail(storage), x) IN
         [raised |-> r.raised, list |-> <<Head(storage)>> \o r.list]

list_insert_front(storage, x) == <<x>> \o storage

\* list.append(x)
list_append(storage, x) == Append(storage, x)

TaskResponse(task) == [id |-> task.id, text |-> task.text]

get_tasks_reversed(storage) ==
    [i \in 1..Len(storage) |-> TaskResponse(storage[Len(storage) + 1 - i])]

\* body of GET /tasks
get_tasks(storage) == [i \in 1..Len(storage) |-> TaskResponse(storage[i])]

\* body of GET /health
health_check(storage, nid) ==
    [status |-> "healthy", tasks_count |-> Len(storage), next_id |-> nid]

\* body of GET /
root(storage) == [message |-> "Session To-Do List API", total_tasks |-> Len(storage)]

\* ------------------------------------------------------------------- state
NoTask == [id |-> 0, text |-> <<>>]

Init ==
    /\ tasks_storage = <<>>
    /\ next_task_id = 1
    /\ request = [op |-> "none"]
    /\ response = [status |-> 0, body |-> [none |-> TRUE]]
    /\ issued = <<>>
    /\ deleted = {}
    /\ n_deleted = 0
    /\ pc = [w \in Workers |-> "idle"]
    /\ new_task = [w \in Workers |-> NoTask]
    /\ reg = [w \in Workers |-> 0]
    /\ overlapped = FALSE

\* ------------------------------------------------ handlers, one at a time
\* POST /tasks
create_task(text) ==
    /\ TaskCreate(text) => next_task_id <= MaxIssue
    /\ request' = [op |-> "POST /tasks", text |-> text]
    /\ IF ~string_unicode(text)
       THEN \* the validation error quotes the text, the 422 body cannot be
            \* encoded as UTF-8 and the exception is not caught
            /\ response' = [status |-> HTTP_500_INTERNAL_SERVER_ERROR,
                            body |-> [detail |-> "UnicodeEncodeError"]]
            /\ UNCHANGED <<store, history>>
       ELSE IF ~TaskCreate(text)
       THEN /\ response' = [status |-> HTTP_422_UNPROCESSABLE, body |-> [detail |-> "validation"]]
            /\ UNCHANGED <<store, history>>
       ELSE LET r == create_task_object(text, next_task_id, tasks_storage) IN
            /\ next_task_id' = r.next
            /\ tasks_storage' = list_append(tasks_storage, r.task)
            /\ response' = [status |-> HTTP_201_CREATED, body |-> TaskResponse(r.task)]
            /\ issued' = Append(issued, r.task)
            /\ UNCHANGED <<deleted, n_deleted>>
    /\ UNCHANGED workers

\* DELETE /tasks/{task_id}
delete_task(task_id) ==
    /\ request' = [op |-> "DELETE /tasks", task_id |-> task_id]
    /\ LET task_to_delete == find_task_by_id(tasks_storage, task_id) IN
       IF task_to_delete = <<>>
       THEN /\ response' = [status |-> HTTP_404_NOT_FOUND, body |-> [detail_id |-> task_id]]
            /\ UNCHANGED <<store, history>>
       ELSE LET r == list_remove(tasks_storage, task_to_delete[1]) IN
            IF r.raised
            THEN /\ response' = [status |-> HTTP_500_INTERNAL_SERVER_ERROR,
                                 body |-> [detail |-> "ValueError"]]
                 /\ UNCHANGED <<store, history>>
            ELSE /\ tasks_storage' = r.list
                 /\ response' = [status |-> HTTP_200_OK,
                                 body |-> [message_id |-> task_id,
                                           deleted_task |-> TaskResponse(task_to_delete[1])]]
                 /\ deleted' = deleted \cup {task_to_delete[1].id}
                 /\ n_deleted' = n_deleted + 1
                 /\ UNCHANGED <<next_task_id, issued>>
    /\ UNCHANGED workers

\* GET /tasks
get_tasks_route ==
    /\ request' = [op |-> "GET /tasks"]
    /\ response' = [status |-> HTTP_200_OK, body |-> [tasks |-> get_tasks(tasks_storage)]]
    /\ UNCHANGED <<store, history, workers>>

\* GET /health
health_check_route ==
    /\ request' = [op |-> "GET /health"]
    /\ response' = [status |-> HTTP_200_OK, body |-> health_check(tasks_storage, next_task_id)]
    /\ UNCHANGED <<store, history, workers>>

\* GET /
root_route ==
    /\ request' = [op |-> "GET /"]
    /\ response' = [status |-> HTTP_200_OK, body |-> root(tasks_storage)]
    /\ UNCHANGED <<store, history, workers>>

Next ==
    \/ \E text \in Texts : create_task(text)
    \/ \E task_id \in TaskIds : delete_task(task_id)
    \/ get_tasks_route
    \/ health_check_route
    \/ root_route

Spec == Init /\ [][Next]_vars


\* ------------------------- two create requests with no mutual exclusion
\* create_task up to the read of next_task_id: validation, then the dict of
\* create_task_object lines 58-61 is built from the counter's current value
c_build(w, text) ==
    /\ pc[w] = "idle"
    /\ TaskCreate(text)
    /\ Len(issued) < MaxConcIssue
    /\ new_task' = [new_task EXCEPT ![w] = create_task_object(text, next_task_id, tasks_storage).task]
    /\ issued' = Append(issued, new_task'[w])
    /\ overlapped' = (overlapped \/ \E v \in Workers \ {w} : pc[v] # "idle")
    /\ pc' = [pc EXCEPT ![w] = "load"]
    /\ UNCHANGED <<store, request, response, deleted, n_deleted, reg>>

\* next_task_id += 1, the read
c_load(w) ==
    /\ pc[w] = "load"
    /\ reg' = [reg EXCEPT ![w] = next_task_id]
    /\ pc' = [pc EXCEPT ![w] = "store"]
    /\ UNCHANGED <<store, request, response, history, new_task, overlapped>>

\* next_task_id += 1, the write
c_store(w) ==
    /\ pc[w] = "store"
    /\ next_task_id' = next_id_after(reg[w])
    /\ reg' = [reg EXCEPT ![w] = 0]
    /\ pc' = [pc EXCEPT ![w] = "append"]
    /\ UNCHANGED <<tasks_storage, request, response, history, new_task, overlapped>>

\* tasks_storage.append(new_task) and the return
c_append(w) ==
    /\ pc[w] = "append"
    /\ tasks_storage' = list_append(tasks_storage, new_task[w])
    /\ new_task' = [new_task EXCEPT ![w] = NoTask]
    /\ pc' = [pc EXCEPT ![w] = "idle"]
    /\ UNCHANGED <<next_task_id, request, response, history, reg, overlapped>>

NextConc ==
    \/ \E w \in Workers, text \in ConcTexts : c_build(w, text)
    \/ \E w \in Workers : c_load(w)
    \/ \E w \in Workers : c_store(w)
    \/ \E w \in Workers : c_append(w)

SpecConc == Init /\ [][NextConc]_vars

\* =============================================================== properties
StoredIds == { tasks_storage[i].id : i \in 1..Len(tasks_storage) }

IssuedIds == { issued[i].id : i \in 1..Len(issued) }

Without(s, i) == SubSeq(s, 1, i - 1) \o SubSeq(s, i + 1, Len(s))

\* the text between the first and the last non-whitespace character
Trimmed(s) ==
    IF \A i \in 1..Len(s) : s[i] \in Whitespace THEN <<>>
    ELSE LET a == CHOOSE i \in 1..Len(s) :
                     s[i] \notin Whitespace /\ \A j \in 1..(i - 1) : s[j] \in Whitespace
             k == CHOOSE i \in 0..(Len(s) - 1) :
                     s[Len(s) - i] \notin Whitespace
                     /\ \A j \in 0..(i - 1) : s[Len(s) - j] \in Whitespace
         IN SubSeq(s, a, Len(s) - k)

NotDeleted(task) == task.id \notin deleted

\* the tasks created and not yet deleted, in creation order
Surviving == SelectSeq(issued, NotDeleted)

IsPost == request.op = "POST /tasks"
IsDelete == request.op = "DELETE /tasks"

\* C1: successive creates issue strictly increasing ids, so no id is issued
\* twice or reused after a delete, and the stored ids are pairwise distinct.
C1_IdsNeverReused ==
    /\ \A i, j \in 1..Len(issued) : i < j => issued[i].id < issued[j].id
    /\ \A i, j \in 1..Len(tasks_storage) :
          i # j => tasks_storage[i].id # tasks_storage[j].id
    /\ StoredIds \subseteq IssuedIds
    /\ deleted \cap StoredIds = {}

C1_Witness ==
    /\ IsPost /\ response.status = HTTP_201_CREATED
    /\ deleted # {}
    /\ \E d \in deleted : d < response.body.id
    /\ Len(tasks_storage) < Len(issued)

\* C2: every stored task has a text of 1 to 200 characters.
C2_StoredTextsValid ==
    \A i \in 1..Len(tasks_storage) :
        /\ Len(tasks_storage[i].text) >= MinLength
        /\ Len(tasks_storage[i].text) <= MaxLength

\* C3: a create request is accepted exactly when its trimmed text has 1 to
\* 200 characters; any other text is rejected and leaves the store unchanged.
C3_AcceptedIffTrimmedValid ==
    [][ request'.op = "POST /tasks" =>
          IF Len(Trimmed(request'.text)) >= MinLength
             /\ Len(Trimmed(request'.text)) <= MaxLength
          THEN response'.status = HTTP_201_CREATED
          ELSE /\ response'.status = HTTP_422_UNPROCESSABLE
               /\ UNCHANGED store ]_vars

\* C4: delete of an id that no stored task has answers 404 with that id and
\* leaves tasks_storage and next_task_id as they were.
C4_DeleteMissing ==
    [][ (request'.op = "DELETE /tasks" /\ request'.task_id \notin StoredIds) =>
          /\ response'.status = HTTP_404_NOT_FOUND
          /\ response'.body = [detail_id |-> request'.task_id]
          /\ UNCHANGED store ]_vars

C4_Witness ==
    /\ IsDelete /\ response.status = HTTP_404_NOT_FOUND
    /\ request.task_id \in deleted
    /\ tasks_storage # <<>>

\* C5: delete of a stored id answers 200 with that task's id and text and
\* takes exactly that element out of the sequence; next_task_id stays.
C5_DeleteStored ==
    [][ (request'.op = "DELETE /tasks" /\ request'.task_id \in StoredIds) =>
          \E i \in 1..Len(tasks_storage) :
             /\ tasks_storage[i].id = request'.task_id
             /\ response'.status = HTTP_200_OK
             /\ response'.body.deleted_task = tasks_storage[i]
             /\ tasks_storage' = Without(tasks_storage, i)
             /\ Len(tasks_storage') = Len(tasks_storage) - 1
             /\ next_task_id' = next_task_id ]_vars

C5_Witness ==
    /\ IsDelete /\ response.status = HTTP_200_OK
    /\ \E i, j \in 1..Len(tasks_storage) :
          /\ tasks_storage[i].id < response.body.deleted_task.id
          /\ response.body.deleted_task.id < tasks_storage[j].id

\* C6: next_task_id starts at 1, exceeds every id ever issued, grows by
\* exactly 1 on a successful create and is changed by nothing else.
C6_CounterMonotone ==
    /\ next_task_id = 1
    /\ [](\A id \in IssuedIds \cup StoredIds \cup deleted : id < next_task_id)
    /\ [][ IF request'.op = "POST /tasks" /\ response'.status = HTTP_201_CREATED
           THEN next_task_id' = next_task_id + 1
           ELSE next_task_id' = next_task_id ]_vars

C6_Witness ==
    /\ IsDelete /\ response.status = HTTP_404_NOT_FOUND
    /\ next_task_id = MaxIssue + 1
    /\ deleted # {}

\* C7: a successful create appends one task whose id is the old next_task_id
\* and whose text is the trimmed input, returns it, and keeps the rest.
C7_CreateAppends ==
    [][ (request'.op = "POST /tasks" /\ response'.status = HTTP_201_CREATED) =>
          LET t == [id |-> next_task_id, text |-> Trimmed(request'.text)] IN
          /\ tasks_storage' = Append(tasks_storage, t)
          /\ response'.body = t ]_vars

C7_Witness ==
    /\ IsPost /\ response.status = HTTP_201_CREATED
    /\ Len(tasks_storage) >= 2
    /\ Len(request.text) = Len(response.body.text) + 2
    /\ response.body.text # <<>>

\* C8: the listing is the created and not yet deleted tasks in creation
\* order, and GET /tasks, GET /health and GET / change nothing in the store.
C8_ListIsSurviving ==
    /\ [](get_tasks(tasks_storage) = Surviving)
    /\ [](request.op = "GET /tasks" => response.body.tasks = Surviving)
    /\ [][ request'.op \in {"GET /tasks", "GET /health", "GET /"} =>
             UNCHANGED store ]_vars

C8_Witness ==
    /\ request.op = "GET /tasks"
    /\ Len(response.body.tasks) >= 2
    /\ \E d \in deleted : d < response.body.tasks[1].id
    /\ response.body.tasks[1].text # response.body.tasks[2].text

DuplicateIds ==
    \E i, j \in 1..Len(tasks_storage) :
        i # j /\ tasks_storage[i].id = tasks_storage[j].id

LostIncrement ==
    /\ \A w \in Workers : pc[w] = "idle"
    /\ next_task_id < 1 + Len(issued)

\* C9: a duplicate stored id or a lost increment of next_task_id happens
\* only in a run where one create started while another was in progress.
C9_UnsafeOnlyWhenInterleaved ==
    (DuplicateIds \/ LostIncrement) => overlapped

C9_Witness == DuplicateIds /\ LostIncrement /\ overlapped

\* C10: tasks_storage is strictly ascending by id, a lookup by id finds the
\* only match, remove takes out exactly the found task, and the /health
\* figures are tasks_count = creates - deletes <= next_id - 1 = creates.
C10_AscendingAndCounts ==
    /\ \A i, j \in 1..Len(tasks_storage) :
          i < j => tasks_storage[i].id < tasks_storage[j].id
    /\ \A i \in 1..Len(tasks_storage) :
          /\ find_task_by_id(tasks_storage, tasks_storage[i].id) = <<tasks_storage[i]>>
          /\ list_remove(tasks_storage, tasks_storage[i]) =
                [raised |-> FALSE, list |-> Without(tasks_storage, i)]
    /\ LET h == health_check(tasks_storage, next_task_id) IN
          /\ h.tasks_count = Len(issued) - n_deleted
          /\ h.tasks_count <= h.next_id - 1
          /\ h.next_id - 1 = Len(issued)

C10_Witness ==
    /\ request.op = "GET /health"
    /\ response.body.tasks_count = 2
    /\ response.body.next_id = 4
    /\ n_deleted = 1

====
